---- MODULE Spec2Model ----
(***************************************************************************)
(* Model of terraform-provider-remote (package remote, the provider that   *)
(* proxies a resource's lifecycle to a Lambda function).                   *)
(*                                                                         *)
(* Go values are modelled as follows.                                      *)
(*   string                   a TLA+ string                                *)
(*   interface{} (JSON)       a tagged record, see JStr .. JObj            *)
(*   map[string]interface{}   JObj(m), m a function from keys to values,   *)
(*                            or NilMap for the nil map                    *)
(*   error                    "" for nil, a label otherwise                *)
(* The planning flag of the payload (isPlanning) is read from the          *)
(* environment, passed through and never tested; it is left out.           *)
(***************************************************************************)
EXTENDS Integers, Sequences, FiniteSets, TLC

\* ------------------------------------------------------------------------
\* Bounds
\* ------------------------------------------------------------------------

\* Resources that share one provider configuration and run concurrently.
NumRes == 2

\* Cap on the count of "schema" invocations that is recorded.
MaxSchemaCalls == 2

\* Longest list of argument fragments handed to parseArgsJSON on its own.
MaxFrags == 3

\* ------------------------------------------------------------------------
\* JSON values
\* ------------------------------------------------------------------------

JStr(s) == [t |-> "string", s |-> s]

JNum(n) == [t |-> "number", n |-> n]

JBool(b) == [t |-> "bool", b |-> b]

JNull == [t |-> "null"]

JArr(a) == [t |-> "array", a |-> a]

JObj(m) == [t |-> "object", m |-> m]

NilMap == [t |-> "nilmap"]

GoList(l) == [t |-> "list", l |-> l]

EmptyFn == [k \in {} |-> JNull]

EmptyObj == JObj(EmptyFn)

IsMap(v) == v.t = "object"

\* len(m) of a map, 0 for the nil map.
MapLen(v) == IF IsMap(v) THEN Cardinality(DOMAIN v.m) ELSE 0

\* m[k] with the "comma ok" form; reading a nil map finds nothing.
HasKey(v, k) == IsMap(v) /\ k \in DOMAIN v.m

\* ------------------------------------------------------------------------
\* encoding/json on the texts that occur
\* ------------------------------------------------------------------------

ObjA1 == JObj("a" :> JNum(1))

ObjA2B == JObj("a" :> JNum(2) @@ "b" :> JObj("x" :> JNum(1)))

ObjB == JObj("b" :> JObj("y" :> JNum(2)))

ObjA1B == JObj("a" :> JNum(1) @@ "b" :> JObj("x" :> JNum(1)))

ObjAX == JObj("a" :> JObj("x" :> JNum(1)))

ObjA5 == JObj("a" :> JNum(5))

ObjS1 == JObj("s" :> JNum(1))

ObjS2 == JObj("s" :> JStr("v"))

\* The JSON texts of the model and the value each one denotes.
JsonTable ==
  {  <<"{}", EmptyObj>>,
     <<"{\"a\":1}", ObjA1>>,
     <<"{\"a\":2,\"b\":{\"x\":1}}", ObjA2B>>,
     <<"{\"b\":{\"y\":2}}", ObjB>>,
     <<"{\"a\":1,\"b\":{\"x\":1}}", ObjA1B>>,
     <<"{\"a\":{\"x\":1}}", ObjAX>>,
     <<"{\"a\":5}", ObjA5>>,
     <<"{\"s\":1}", ObjS1>>,
     <<"{\"s\":\"v\"}", ObjS2>>,
     <<"null", JNull>>,
     <<"5", JNum(5)>>  }

JsonTexts == {e[1] : e \in JsonTable}

\* Strings that are no JSON text.
JunkTexts == {"", "user data problem sasa"}

Decoded(s) == (CHOOSE e \in JsonTable : e[1] = s)[2]

\* The decoder's store of a decoded value v into a map[string]interface{}
\* whose value before is `into`: null makes it nil, an object's members are
\* stored into it (a nil map is allocated first), anything else is a type
\* error that leaves it alone.
UnmarshalValue(v, into) ==
  CASE v.t = "null"   -> [err |-> "", m |-> NilMap]
    [] v.t = "object" ->
         [err |-> "",
          m |-> IF IsMap(into)
                  THEN JObj([k \in DOMAIN into.m \cup DOMAIN v.m |->
                               IF k \in DOMAIN v.m THEN v.m[k] ELSE into.m[k]])
                  ELSE v]
    [] OTHER          -> [err |-> "type", m |-> into]

\* json.Unmarshal([]byte(s), &m) for m a map[string]interface{} whose value
\* before the call is `into`: the error, and m after the call.  A syntax
\* error leaves m alone.
Unmarshal(s, into) ==
  IF s \notin JsonTexts THEN [err |-> "syntax", m |-> into]
  ELSE UnmarshalValue(Decoded(s), into)

\* json.Marshal of a map[string]interface{}: keys sorted, no spaces.
Marshal(v) ==
  IF v.t = "nilmap" THEN "null"
  ELSE CHOOSE s \in JsonTexts : Decoded(s) = v

\* ------------------------------------------------------------------------
\* Helpers of the provider
\* ------------------------------------------------------------------------

\* deepMerge(dst, src) on the members of two non-nil maps: the members of
\* dst after the call.
\* A merge that lets the incoming value replace the accumulator's also when
\* both are objects.
deepMergeShallow(dst, src) ==
  [k \in DOMAIN dst \cup DOMAIN src |-> IF k \in DOMAIN src THEN src[k] ELSE dst[k]]

RECURSIVE deepMerge(_, _)
deepMerge(dst, src) ==
  [k \in DOMAIN dst \cup DOMAIN src |->
     IF k \notin DOMAIN src THEN dst[k]
     ELSE IF src[k].t = "object" /\ k \in DOMAIN dst /\ dst[k].t = "object"
       THEN JObj(deepMerge(dst[k].m, src[k].m))
       ELSE src[k]]

\* The loop of parseArgsJSON over the elements of a list, `final` being the
\* accumulator: an element that is no string or does not decode is skipped.
\* A loop that leaves at the first element it cannot use (break for
\* continue).
RECURSIVE mergeFragmentsBreak(_, _)
mergeFragmentsBreak(final, arr) ==
  IF arr = <<>> THEN final
  ELSE LET el == Head(arr)
           u  == IF el.t = "string" THEN Unmarshal(el.s, NilMap)
                                    ELSE [err |-> "notstring", m |-> NilMap]
       IN IF u.err # "" THEN final
          ELSE mergeFragmentsBreak(IF IsMap(u.m) THEN deepMerge(final, u.m.m) ELSE final,
                                   Tail(arr))

RECURSIVE mergeFragments(_, _)
mergeFragments(final, arr) ==
  IF arr = <<>> THEN final
  ELSE LET el == Head(arr)
           u  == IF el.t = "string" THEN Unmarshal(el.s, NilMap)
                                    ELSE [err |-> "notstring", m |-> NilMap]
           nx == IF u.err = "" /\ IsMap(u.m) THEN deepMerge(final, u.m.m) ELSE final
       IN mergeFragments(nx, Tail(arr))

\* parseArgsJSON(argsInput): a list is merged, a string is decoded (the
\* legacy form), anything else is an error.
parseArgsJSON(argsInput) ==
  CASE argsInput.t = "list"   ->
         [err |-> "", m |-> JObj(mergeFragments(EmptyFn, argsInput.l))]
    [] argsInput.t = "string" ->
         LET u == Unmarshal(argsInput.s, NilMap) IN
         IF u.err # "" THEN [err |-> "parse", m |-> NilMap]
                       ELSE [err |-> "", m |-> u.m]
    [] OTHER -> [err |-> "argstype", m |-> NilMap]

\* The Go type of attribute "args" in the resource's schema: a TypeList of
\* strings, which ResourceData and ResourceDiff hand out as []interface{}.
ArgsValue(args) == GoList([i \in 1..Len(args) |-> JStr(args[i])])

\* v.(string): the string and whether the assertion held.
AsString(v) == [ok |-> v.t = "string", s |-> IF v.t = "string" THEN v.s ELSE ""]

\* getPreviousArgs(d): d is a record [id, args, result, store, isNew].
\* GetOk reports ok only for a non-zero value, an empty list is zero.
getPreviousArgs(d) ==
  IF d.isNew THEN EmptyObj
  ELSE IF d.args = <<>> THEN EmptyObj
  ELSE LET a == AsString(ArgsValue(d.args)) IN
    IF ~a.ok \/ a.s = "" THEN EmptyObj
    ELSE LET p == parseArgsJSON(JStr(a.s)) IN
      IF p.err # "" THEN EmptyObj ELSE p.m

\* The store handed to the remote function: the persisted string decoded
\* into an empty map, errors dropped.
decodeStore(d) ==
  IF d.store # "" THEN Unmarshal(d.store, EmptyObj).m ELSE EmptyObj

\* The keys a schema requires; gojsonschema applies "required" to objects.
RequiredKeys(schema) ==
  IF HasKey(schema, "required") /\ schema.m["required"].t = "array"
    THEN {schema.m["required"].a[i].s : i \in 1..Len(schema.m["required"].a)}
    ELSE {}

\* A validation without the early return for a nil or empty schema: the
\* validator is handed the nil schema and fails on it.
validateWithSchemaNoGuard(schema, doc) ==
  IF ~IsMap(schema) THEN "validation"
  ELSE IF IsMap(doc) /\ ~(RequiredKeys(schema) \subseteq DOMAIN doc.m)
    THEN "validation"
    ELSE ""

\* validateWithSchema(schema, doc, side): "" when the document passes.
validateWithSchema(schema, doc) ==
  IF ~IsMap(schema) \/ MapLen(schema) = 0 THEN ""
  ELSE IF IsMap(doc) /\ ~(RequiredKeys(schema) \subseteq DOMAIN doc.m)
    THEN "validation"
    ELSE ""

\* fmt.Sprintf("%v", val) of the values that occur in results.
Sprint(v) ==
  CASE v.t = "number" -> (CHOOSE p \in {<<1, "1">>, <<2, "2">>, <<5, "5">>} : p[1] = v.n)[2]
    [] v.t = "bool"   -> IF v.b THEN "true" ELSE "false"
    [] OTHER          -> "<nil>"

\* mapStringValues(input): every value as a string; a nil map gives an
\* empty map.
mapStringValues(input) ==
  IF ~IsMap(input) THEN [k \in {} |-> ""]
  ELSE [k \in DOMAIN input.m |->
          IF input.m[k].t = "string" THEN input.m[k].s ELSE Sprint(input.m[k])]

\* A codec that drops the store.
setStoreAsJSONStringDropped(store) == ""

\* setStoreAsJSONString(d, store): the string stored in attribute "store".
setStoreAsJSONString(store) ==
  IF store.t = "nilmap" THEN "" ELSE Marshal(store)

\* ------------------------------------------------------------------------
\* invokeLambda
\* ------------------------------------------------------------------------

\* What an invocation of the function comes back with.
TransportError == [kind |-> "transport"]

FunctionError == [kind |-> "function"]

Reply(v) == [kind |-> "payload", v |-> v]

\* invokeLambda(client, payload) on outcome o of the invocation.
invokeLambda(o) ==
  LET failed == [err |-> o.kind, ID |-> "", Result |-> NilMap, Store |-> NilMap,
                 Replace |-> FALSE, Reason |-> ""]
  IN
  IF o.kind # "payload" THEN failed
  ELSE IF o.v.t \notin {"object", "null"} THEN [failed EXCEPT !.err = "decode"]
  ELSE
    LET out == IF o.v.t = "object" THEN o.v ELSE NilMap
        resultVal ==
          IF HasKey(out, "result")
            THEN LET res == out.m["result"] IN
              CASE res.t = "object" -> res
                [] res.t = "string" ->
                     LET u == Unmarshal(res.s, NilMap) IN
                     IF u.err # "" THEN EmptyObj ELSE u.m
                [] OTHER -> EmptyObj
            ELSE EmptyObj
        storeVal ==
          IF HasKey(out, "store")
            THEN LET st == out.m["store"] IN
              CASE st.t = "object" -> st
                [] st.t = "string" -> Unmarshal(st.s, NilMap).m
                [] OTHER -> EmptyObj
            ELSE NilMap
        replace == HasKey(out, "replace") /\ out.m["replace"].t = "bool"
                     /\ out.m["replace"].b
        reason == IF HasKey(out, "reason") /\ out.m["reason"].t = "string"
                    THEN out.m["reason"].s ELSE ""
        id == IF HasKey(resultVal, "id") /\ resultVal.m["id"].t = "string"
                THEN resultVal.m["id"].s ELSE ""
    IN [err |-> "", ID |-> id, Result |-> resultVal, Store |-> storeVal,
        Replace |-> replace, Reason |-> reason]

\* lambdaPayload
Payload(action, args, state, store) ==
  [Action |-> action, Args |-> args, State |-> state, Store |-> store]

\* ------------------------------------------------------------------------
\* The schema cache of remoteClient
\* ------------------------------------------------------------------------

\* c.schemas before the fetch: a nil *lambdaSchemaResponse.
NoSchemas == [nil |-> TRUE, Request |-> NilMap, Response |-> NilMap]

\* One member of lambdaSchemaResponse decoded from the schema reply's result.
SchemaMember(result, name) ==
  IF HasKey(result, name) /\ result.m[name].t = "object" THEN result.m[name]
                                                          ELSE NilMap

\* The function passed to c.once.Do, resp being what invokeLambda returned
\* for action "schema" and c the fields [schemas, schemaErr] of the client:
\* the fields when the function returns.
OnceBody(c, resp) ==
  IF resp.err # "" THEN [c EXCEPT !.schemaErr = resp.err]
  ELSE [c EXCEPT !.schemas = [nil |-> FALSE,
                              Request  |-> SchemaMember(resp.Result, "request"),
                              Response |-> SchemaMember(resp.Result, "response")]]

\* A gate that tests "done" without holding the lock: a second caller runs
\* the function too while the first is still in it.
OnceShouldRunRacy(o) == o # "done"

\* sync.Once: Do runs the function for the first caller only ...
OnceShouldRun(o) == o = "fresh"

\* A gate that lets the other callers through while the function runs.
OnceBlocksNever(o) == FALSE

\* ... every other caller of Do waits while the function runs ...
OnceBlocks(o) == o = "running"

\* A gate that opens again after a failed fetch (a retrying single-flight).
OnceAfterRetry(schemaErr) == IF schemaErr # "" THEN "fresh" ELSE "done"

\* ... and the Once is done when the function has returned, whatever it did.
OnceAfter(schemaErr) == "done"

\* ------------------------------------------------------------------------
\* The handlers.  d is the ResourceData [id, args, result, store, isNew],
\* sch what getSchemas returned, o the outcome of the handler's invocation.
\* A handler yields d as it leaves it, its error and the payloads it sent.
\* ------------------------------------------------------------------------

Ret(d, err, calls) == [d |-> d, err |-> err, calls |-> calls]

\* A create that sets the id as soon as the reply has one, before the
\* result is validated.
resourceRemoteCreateEarlySetId(d, sch, o) ==
  LET p     == parseArgsJSON(ArgsValue(d.args))
      store == decodeStore(d)
      state == EmptyObj
      call  == Payload("create", p.m, state, store)
      res   == invokeLambda(o)
  IN
  IF p.err # "" THEN Ret(d, "create: parse", <<>>)
  ELSE IF sch.err # "" THEN Ret(d, sch.err, <<>>)
  ELSE IF validateWithSchema(sch.schemas.Request, p.m) # ""
    THEN Ret(d, "request validation", <<>>)
  ELSE IF res.err # "" THEN Ret(d, res.err, <<call>>)
  ELSE IF res.ID = "" THEN Ret(d, "missing id", <<call>>)
  ELSE IF validateWithSchema(sch.schemas.Response, res.Result) # ""
    THEN Ret([d EXCEPT !.id = res.ID], "response validation", <<call>>)
  ELSE Ret([d EXCEPT !.id = res.ID,
                     !.result = mapStringValues(res.Result),
                     !.store = setStoreAsJSONString(res.Store)], "", <<call>>)

\* A create that invokes before it validates the request.
resourceRemoteCreateInvokeFirst(d, sch, o) ==
  LET p     == parseArgsJSON(ArgsValue(d.args))
      store == decodeStore(d)
      state == EmptyObj
      call  == Payload("create", p.m, state, store)
      res   == invokeLambda(o)
  IN
  IF p.err # "" THEN Ret(d, "create: parse", <<>>)
  ELSE IF sch.err # "" THEN Ret(d, sch.err, <<>>)
  ELSE IF res.err # "" THEN Ret(d, res.err, <<call>>)
  ELSE IF validateWithSchema(sch.schemas.Request, p.m) # ""
    THEN Ret(d, "request validation", <<call>>)
  ELSE IF res.ID = "" THEN Ret(d, "missing id", <<call>>)
  ELSE IF validateWithSchema(sch.schemas.Response, res.Result) # ""
    THEN Ret(d, "response validation", <<call>>)
  ELSE Ret([d EXCEPT !.id = res.ID,
                     !.result = mapStringValues(res.Result),
                     !.store = setStoreAsJSONString(res.Store)], "", <<call>>)

resourceRemoteCreate(d, sch, o) ==
  LET p     == parseArgsJSON(ArgsValue(d.args))
      store == decodeStore(d)
      state == EmptyObj
      call  == Payload("create", p.m, state, store)
      res   == invokeLambda(o)
  IN
  IF p.err # "" THEN Ret(d, "create: parse", <<>>)
  ELSE IF sch.err # "" THEN Ret(d, sch.err, <<>>)
  ELSE IF validateWithSchema(sch.schemas.Request, p.m) # ""
    THEN Ret(d, "request validation", <<>>)
  ELSE IF res.err # "" THEN Ret(d, res.err, <<call>>)
  ELSE IF res.ID = "" THEN Ret(d, "missing id", <<call>>)
  ELSE IF validateWithSchema(sch.schemas.Response, res.Result) # ""
    THEN Ret(d, "response validation", <<call>>)
  ELSE Ret([d EXCEPT !.id = res.ID,
                     !.result = mapStringValues(res.Result),
                     !.store = setStoreAsJSONString(res.Store)], "", <<call>>)

\* A read that invokes a second time when the first invocation failed.
resourceRemoteReadRetry(d, sch, o) ==
  LET p     == parseArgsJSON(ArgsValue(d.args))
      store == decodeStore(d)
      state == getPreviousArgs(d)
      call  == Payload("read", p.m, state, store)
      res   == invokeLambda(o)
  IN
  IF p.err # "" THEN Ret(d, "read: parse", <<>>)
  ELSE IF sch.err # "" THEN Ret(d, sch.err, <<>>)
  ELSE IF validateWithSchema(sch.schemas.Request, p.m) # ""
    THEN Ret(d, "request validation", <<>>)
  ELSE IF res.err # "" THEN Ret(d, "remote read failed", <<call, call>>)
  ELSE IF res.ID = "" THEN Ret([d EXCEPT !.id = ""], "", <<call>>)
  ELSE IF validateWithSchema(sch.schemas.Response, res.Result) # ""
    THEN Ret(d, "response validation", <<call>>)
  ELSE Ret([d EXCEPT !.id = res.ID,
                     !.result = mapStringValues(res.Result),
                     !.store = setStoreAsJSONString(res.Store)], "", <<call>>)

\* A read that stores the reply's id, result and store before it validates
\* the result.
resourceRemoteReadEarlySet(d, sch, o) ==
  LET p     == parseArgsJSON(ArgsValue(d.args))
      store == decodeStore(d)
      state == getPreviousArgs(d)
      call  == Payload("read", p.m, state, store)
      res   == invokeLambda(o)
  IN
  IF p.err # "" THEN Ret(d, "read: parse", <<>>)
  ELSE IF sch.err # "" THEN Ret(d, sch.err, <<>>)
  ELSE IF validateWithSchema(sch.schemas.Request, p.m) # ""
    THEN Ret(d, "request validation", <<>>)
  ELSE IF res.err # "" THEN Ret(d, "remote read failed", <<call>>)
  ELSE IF res.ID = "" THEN Ret([d EXCEPT !.id = ""], "", <<call>>)
  ELSE IF validateWithSchema(sch.schemas.Response, res.Result) # ""
    THEN Ret([d EXCEPT !.id = res.ID,
                       !.result = mapStringValues(res.Result),
                       !.store = setStoreAsJSONString(res.Store)],
             "response validation", <<call>>)
  ELSE Ret([d EXCEPT !.id = res.ID,
                     !.result = mapStringValues(res.Result),
                     !.store = setStoreAsJSONString(res.Store)], "", <<call>>)

\* A read that returns the error of decoding the persisted store.
resourceRemoteReadStrictStore(d, sch, o) ==
  LET p     == parseArgsJSON(ArgsValue(d.args))
      store == decodeStore(d)
      state == getPreviousArgs(d)
      call  == Payload("read", p.m, state, store)
      res   == invokeLambda(o)
  IN
  IF p.err # "" THEN Ret(d, "read: parse", <<>>)
  ELSE IF d.store # "" /\ Unmarshal(d.store, EmptyObj).err # ""
    THEN Ret(d, "read: store", <<>>)
  ELSE IF sch.err # "" THEN Ret(d, sch.err, <<>>)
  ELSE IF validateWithSchema(sch.schemas.Request, p.m) # ""
    THEN Ret(d, "request validation", <<>>)
  ELSE IF res.err # "" THEN Ret(d, "remote read failed", <<call>>)
  ELSE IF res.ID = "" THEN Ret([d EXCEPT !.id = ""], "", <<call>>)
  ELSE IF validateWithSchema(sch.schemas.Response, res.Result) # ""
    THEN Ret(d, "response validation", <<call>>)
  ELSE Ret([d EXCEPT !.id = res.ID,
                     !.result = mapStringValues(res.Result),
                     !.store = setStoreAsJSONString(res.Store)], "", <<call>>)

resourceRemoteRead(d, sch, o) ==
  LET p     == parseArgsJSON(ArgsValue(d.args))
      store == decodeStore(d)
      state == getPreviousArgs(d)
      call  == Payload("read", p.m, state, store)
      res   == invokeLambda(o)
  IN
  IF p.err # "" THEN Ret(d, "read: parse", <<>>)
  ELSE IF sch.err # "" THEN Ret(d, sch.err, <<>>)
  ELSE IF validateWithSchema(sch.schemas.Request, p.m) # ""
    THEN Ret(d, "request validation", <<>>)
  ELSE IF res.err # "" THEN Ret(d, "remote read failed", <<call>>)
  ELSE IF res.ID = "" THEN Ret([d EXCEPT !.id = ""], "", <<call>>)
  ELSE IF validateWithSchema(sch.schemas.Response, res.Result) # ""
    THEN Ret(d, "response validation", <<call>>)
  ELSE Ret([d EXCEPT !.id = res.ID,
                     !.result = mapStringValues(res.Result),
                     !.store = setStoreAsJSONString(res.Store)], "", <<call>>)

\* An update that sets the id as soon as the reply has one, before the
\* result is validated.
resourceRemoteUpdateEarlySetId(d, sch, o) ==
  LET p     == parseArgsJSON(ArgsValue(d.args))
      store == decodeStore(d)
      state == getPreviousArgs(d)
      call  == Payload("update", p.m, state, store)
      res   == invokeLambda(o)
  IN
  IF p.err # "" THEN Ret(d, "update: parse", <<>>)
  ELSE IF sch.err # "" THEN Ret(d, sch.err, <<>>)
  ELSE IF validateWithSchema(sch.schemas.Request, p.m) # ""
    THEN Ret(d, "request validation", <<>>)
  ELSE IF res.err # "" THEN Ret(d, res.err, <<call>>)
  ELSE IF res.ID = "" THEN Ret(d, "missing id", <<call>>)
  ELSE IF validateWithSchema(sch.schemas.Response, res.Result) # ""
    THEN Ret([d EXCEPT !.id = res.ID], "response validation", <<call>>)
  ELSE Ret([d EXCEPT !.id = res.ID,
                     !.result = mapStringValues(res.Result),
                     !.store = setStoreAsJSONString(res.Store)], "", <<call>>)

resourceRemoteUpdate(d, sch, o) ==
  LET p     == parseArgsJSON(ArgsValue(d.args))
      store == decodeStore(d)
      state == getPreviousArgs(d)
      call  == Payload("update", p.m, state, store)
      res   == invokeLambda(o)
  IN
  IF p.err # "" THEN Ret(d, "update: parse", <<>>)
  ELSE IF sch.err # "" THEN Ret(d, sch.err, <<>>)
  ELSE IF validateWithSchema(sch.schemas.Request, p.m) # ""
    THEN Ret(d, "request validation", <<>>)
  ELSE IF res.err # "" THEN Ret(d, res.err, <<call>>)
  ELSE IF res.ID = "" THEN Ret(d, "missing id", <<call>>)
  ELSE IF validateWithSchema(sch.schemas.Response, res.Result) # ""
    THEN Ret(d, "response validation", <<call>>)
  ELSE Ret([d EXCEPT !.id = res.ID,
                     !.result = mapStringValues(res.Result),
                     !.store = setStoreAsJSONString(res.Store)], "", <<call>>)

\* A delete that validates the reply's result like the other handlers.
resourceRemoteDeleteValidating(d, sch, o) ==
  LET p     == parseArgsJSON(ArgsValue(d.args))
      store == decodeStore(d)
      state == getPreviousArgs(d)
      call  == Payload("delete", p.m, state, store)
      res   == invokeLambda(o)
  IN
  IF p.err # "" THEN Ret(d, "delete: parse", <<>>)
  ELSE IF sch.err # "" THEN Ret(d, sch.err, <<>>)
  ELSE IF validateWithSchema(sch.schemas.Request, p.m) # ""
    THEN Ret(d, "request validation", <<>>)
  ELSE IF res.err # "" THEN Ret(d, res.err, <<call>>)
  ELSE IF res.ID = "" THEN Ret([d EXCEPT !.id = ""], "", <<call>>)
  ELSE IF validateWithSchema(sch.schemas.Response, res.Result) # ""
    THEN Ret(d, "response validation", <<call>>)
  ELSE Ret([d EXCEPT !.id = res.ID,
                     !.result = mapStringValues(res.Result),
                     !.store = setStoreAsJSONString(res.Store)], "", <<call>>)

\* A delete that clears the id before it looks at the invocation's error.
resourceRemoteDeleteClearsFirst(d, sch, o) ==
  LET p     == parseArgsJSON(ArgsValue(d.args))
      store == decodeStore(d)
      state == getPreviousArgs(d)
      call  == Payload("delete", p.m, state, store)
      res   == invokeLambda(o)
  IN
  IF p.err # "" THEN Ret(d, "delete: parse", <<>>)
  ELSE IF sch.err # "" THEN Ret(d, sch.err, <<>>)
  ELSE IF validateWithSchema(sch.schemas.Request, p.m) # ""
    THEN Ret(d, "request validation", <<>>)
  ELSE IF res.err # "" THEN Ret([d EXCEPT !.id = ""], res.err, <<call>>)
  ELSE IF res.ID = "" THEN Ret([d EXCEPT !.id = ""], "", <<call>>)
  ELSE Ret([d EXCEPT !.id = res.ID,
                     !.result = mapStringValues(res.Result),
                     !.store = setStoreAsJSONString(res.Store)], "", <<call>>)

\* A delete that drops the error of getSchemas and goes on without schemas.
resourceRemoteDeleteIgnoresFetchError(d, sch, o) ==
  LET p     == parseArgsJSON(ArgsValue(d.args))
      store == decodeStore(d)
      state == getPreviousArgs(d)
      call  == Payload("delete", p.m, state, store)
      res   == invokeLambda(o)
  IN
  IF p.err # "" THEN Ret(d, "delete: parse", <<>>)
  ELSE IF validateWithSchema(sch.schemas.Request, p.m) # ""
    THEN Ret(d, "request validation", <<>>)
  ELSE IF res.err # "" THEN Ret(d, res.err, <<call>>)
  ELSE IF res.ID = "" THEN Ret([d EXCEPT !.id = ""], "", <<call>>)
  ELSE Ret([d EXCEPT !.id = res.ID,
                     !.result = mapStringValues(res.Result),
                     !.store = setStoreAsJSONString(res.Store)], "", <<call>>)

resourceRemoteDelete(d, sch, o) ==
  LET p     == parseArgsJSON(ArgsValue(d.args))
      store == decodeStore(d)
      state == getPreviousArgs(d)
      call  == Payload("delete", p.m, state, store)
      res   == invokeLambda(o)
  IN
  IF p.err # "" THEN Ret(d, "delete: parse", <<>>)
  ELSE IF sch.err # "" THEN Ret(d, sch.err, <<>>)
  ELSE IF validateWithSchema(sch.schemas.Request, p.m) # ""
    THEN Ret(d, "request validation", <<>>)
  ELSE IF res.err # "" THEN Ret(d, res.err, <<call>>)
  ELSE IF res.ID = "" THEN Ret([d EXCEPT !.id = ""], "", <<call>>)
  ELSE Ret([d EXCEPT !.id = res.ID,
                     !.result = mapStringValues(res.Result),
                     !.store = setStoreAsJSONString(res.Store)], "", <<call>>)

\* isCreate of CustomizeDiff, from the old value of "args".
IsCreate(old) ==
  LET a == AsString(old) IN ~a.ok \/ a.s = "" \/ a.s = "{}"

\* A CustomizeDiff without the test for a create: it asks for a diff with
\* whatever the prior state holds.
CustomizeDiffNoSkip(d, oldArgs, o) ==
  LET p     == parseArgsJSON(ArgsValue(d.args))
      store == decodeStore(d)
      po    == parseArgsJSON(ArgsValue(oldArgs))
      call  == Payload("diff", p.m, po.m, store)
      res   == invokeLambda(o)
      out(err, force, reason, calls) ==
        [err |-> err, forceNew |-> force, reason |-> reason, calls |-> calls]
  IN
  IF p.err # "" THEN out("CustomizeDiff: parse", FALSE, "", <<>>)
  ELSE IF res.err # "" THEN out(res.err, FALSE, "", <<call>>)
  ELSE IF res.Replace THEN out("", TRUE, res.Reason, <<call>>)
  ELSE out("", FALSE, "", <<call>>)

\* CustomizeDiff(d): d.args is the proposed value of "args", oldArgs the
\* value in the prior state.  Yields the error, whether "args" was marked
\* ForceNew, the reason written to the log, and the payloads sent.
CustomizeDiff(d, oldArgs, o) ==
  LET p     == parseArgsJSON(ArgsValue(d.args))
      store == decodeStore(d)
      old   == ArgsValue(oldArgs)
      isCreate == IsCreate(old)
      po    == IF isCreate THEN [err |-> "", m |-> EmptyObj]
                           ELSE parseArgsJSON(JStr(AsString(old).s))
      call  == Payload("diff", p.m, po.m, store)
      res   == invokeLambda(o)
      out(err, force, reason, calls) ==
        [err |-> err, forceNew |-> force, reason |-> reason, calls |-> calls]
  IN
  IF p.err # "" THEN out("CustomizeDiff: parse", FALSE, "", <<>>)
  ELSE IF po.err # "" THEN out("CustomizeDiff: old args", FALSE, "", <<>>)
  ELSE IF isCreate THEN out("", FALSE, "", <<>>)
  ELSE IF res.err # "" THEN out(res.err, FALSE, "", <<call>>)
  ELSE IF res.Replace THEN out("", TRUE, res.Reason, <<call>>)
  ELSE out("", FALSE, "", <<call>>)

\* ------------------------------------------------------------------------
\* The host side (helper/schema of the plugin SDK) around the handlers
\* ------------------------------------------------------------------------

EmptyResult == [k \in {} |-> ""]

\* A resource that is not in the host's state.
Absent == [id |-> "", args |-> <<>>, result |-> EmptyResult, store |-> ""]

\* ResourceData.State(): no state at all once the id is empty.
State(d) ==
  IF d.id = "" THEN Absent
  ELSE [id |-> d.id, args |-> d.args, result |-> d.result, store |-> d.store]

\* The ResourceData a handler is given: the prior state with the proposed
\* args; create starts from nothing and is marked new, read and delete get
\* the state as it is.
DataFor(kind, prior, cfg) ==
  CASE kind = "create" ->
         [id |-> "", args |-> cfg, result |-> EmptyResult, store |-> "",
          isNew |-> TRUE]
    [] kind = "update" ->
         [id |-> prior.id, args |-> cfg, result |-> prior.result,
          store |-> prior.store, isNew |-> FALSE]
    [] OTHER ->
         [id |-> prior.id, args |-> prior.args, result |-> prior.result,
          store |-> prior.store, isNew |-> FALSE]

\* CreateContext, ReadContext, UpdateContext, DeleteContext of the resource.
Handler(kind, d, sch, o) ==
  CASE kind = "create" -> resourceRemoteCreate(d, sch, o)
    [] kind = "read"   -> resourceRemoteRead(d, sch, o)
    [] kind = "update" -> resourceRemoteUpdate(d, sch, o)
    [] OTHER           -> resourceRemoteDelete(d, sch, o)

\* A host that keeps whatever the delete handler left in its ResourceData.
PersistedAsLeft(kind, h) == State(h.d)

\* What the host keeps when the handler has returned h: the state of its
\* ResourceData, and nothing after a delete that returned no error.
Persisted(kind, h) ==
  IF kind = "delete" /\ h.err = "" THEN Absent ELSE State(h.d)

\* The host creates what it does not hold and reads, updates and deletes
\* what it holds.
HostMayCall(kind, prior) ==
  IF kind = "create" THEN prior.id = "" ELSE prior.id # ""

\* ------------------------------------------------------------------------
\* State
\* ------------------------------------------------------------------------

Resources == 1..NumRes

Kinds == {"create", "read", "update", "delete"}

VARIABLES
  once,         \* c.once: "fresh", "running" (its function runs) or "done"
  schemas,      \* c.schemas
  schemaErr,    \* c.schemaErr
  schemaCalls,  \* invocations with action "schema" so far
  returned,     \* what getSchemas has returned so far, and to which resource's
                \* operation: pairs <<resource, [schemas, err]>>
  rec,          \* the host's state of each resource
  pc,           \* where each resource's operation is: "idle", "fetching"
                \* (inside the function of once.Do) or "waiting" (at once.Do)
  op,           \* the operation in flight on each resource
  last,         \* the operation that returned last, as the host saw it
  probe         \* a call of parseArgsJSON on its own: its argument and what
                \* it returned

vars == <<once, schemas, schemaErr, schemaCalls, returned, rec, pc, op, last, probe>>

NoOp == [kind |-> "none", cfg |-> <<>>, how |-> "none"]

NoLast ==
  [res |-> 0, kind |-> "none", how |-> "none", cfg |-> <<>>, before |-> Absent,
   sch |-> [schemas |-> NoSchemas, err |-> ""], gate |-> "fresh",
   o |-> TransportError, err |-> "", calls |-> <<>>, d |-> Absent,
   forceNew |-> FALSE, reason |-> ""]

\* No call of parseArgsJSON on its own.
NoProbe == [fn |-> "none", in |-> GoList(<<>>), out |-> [err |-> "", m |-> NilMap]]

\* A resource the host holds from an earlier run of the provider.
Held ==
  [id |-> "i1", args |-> <<"{\"a\":1}">>,
   result |-> [k \in {"id", "k"} |-> IF k = "id" THEN "i1" ELSE "1"],
   store |-> "{\"s\":1}"]

\* What attribute "store" of a held resource may hold when this provider
\* did not write it (a state file written by hand or by another version):
\* a text that is no JSON, the text of a number and the text of null.
ForeignStores == {"user data problem sasa", "5", "null"}

\* configureProvider has returned a remoteClient with a fresh Once and no
\* schemas; the host's state of the resources is recs.
ConfiguredHolding(recs) ==
  /\ once = "fresh"
  /\ schemas = NoSchemas
  /\ schemaErr = ""
  /\ schemaCalls = 0
  /\ returned = {}
  /\ rec = recs
  /\ pc = [r \in Resources |-> "idle"]
  /\ op = [r \in Resources |-> NoOp]
  /\ last = NoLast

\* The host holds the resources in `held` and no others.
Configured(held) ==
  ConfiguredHolding([r \in Resources |-> IF r \in held THEN Held ELSE Absent])

Init == probe = NoProbe /\ \E held \in SUBSET Resources : Configured(held)

InitLifecycle ==
  /\ probe = NoProbe
  /\ \/ \E held \in SUBSET {1} : Configured(held)
     \/ \E s \in ForeignStores :
          ConfiguredHolding([r \in Resources |->
                               IF r = 1 THEN [Held EXCEPT !.store = s] ELSE Absent])

\* getSchemas returns: c.schemas and c.schemaErr as they are.
GetSchemasReturn == [schemas |-> schemas, err |-> schemaErr]

\* The host stores what the handler left in d when it returned h.
Store(r, kind, how, sch, d, h, o) ==
  /\ returned' = returned \cup {<<r, sch>>}
  /\ rec' = [rec EXCEPT ![r] = Persisted(kind, h)]
  /\ last' = [res |-> r, kind |-> kind, how |-> how, cfg |-> d.args,
              before |-> rec[r],
              sch |-> sch, gate |-> once, o |-> o, err |-> h.err,
              calls |-> h.calls, d |-> State(h.d),
              forceNew |-> FALSE, reason |-> ""]
  /\ pc' = [pc EXCEPT ![r] = "idle"]
  /\ op' = [op EXCEPT ![r] = NoOp]

\* The handler from the return of getSchemas on.
Run(r, kind, how, sch, d, o) ==
  Store(r, kind, how, sch, d, Handler(kind, d, sch, o), o)

\* The rest of an operation once c.once.Do has returned.
Finish(r, kind, how, cfg, o) ==
  Run(r, kind, how, GetSchemasReturn, DataFor(kind, rec[r], cfg), o)

\* A handler is called and is the first to reach c.once.Do: it invokes the
\* function with action "schema".
CallFetch(r, kind, cfg) ==
  /\ pc[r] = "idle"
  /\ HostMayCall(kind, rec[r])
  /\ OnceShouldRun(once)
  /\ schemaCalls < MaxSchemaCalls
  /\ once' = "running"
  /\ schemaCalls' = schemaCalls + 1
  /\ pc' = [pc EXCEPT ![r] = "fetching"]
  /\ op' = [op EXCEPT ![r] = [kind |-> kind, cfg |-> cfg, how |-> "fetch"]]
  /\ UNCHANGED <<schemas, schemaErr, returned, rec, last>>

\* The function of once.Do returns, leaving the client's fields as in c.
Fetched(c) ==
  /\ schemas' = c.schemas
  /\ schemaErr' = c.schemaErr
  /\ once' = OnceAfter(c.schemaErr)

\* The "schema" invocation comes back with outcome so and the function of
\* once.Do returns.
FetchDone(r, so) ==
  /\ pc[r] = "fetching"
  /\ Fetched(OnceBody([schemas |-> schemas, schemaErr |-> schemaErr],
                      invokeLambda(so)))
  /\ pc' = [pc EXCEPT ![r] = "waiting"]
  /\ last' = [NoLast EXCEPT !.res = r, !.kind = "schema", !.how = "fetch",
                            !.before = rec[r], !.d = rec[r], !.gate = once,
                            !.sch = [schemas |-> schemas', err |-> schemaErr'],
                            !.o = so, !.err = schemaErr',
                            !.calls = <<Payload("schema", NilMap, NilMap, NilMap)>>]
  /\ UNCHANGED <<schemaCalls, returned, rec, op>>

\* A handler is called while the fetch is in flight and stops at c.once.Do.
CallWait(r, kind, cfg) ==
  /\ pc[r] = "idle"
  /\ HostMayCall(kind, rec[r])
  /\ once = "running"
  /\ pc' = [pc EXCEPT ![r] = "waiting"]
  /\ op' = [op EXCEPT ![r] = [kind |-> kind, cfg |-> cfg, how |-> "wait"]]
  /\ UNCHANGED <<once, schemas, schemaErr, schemaCalls, returned, rec, last>>

\* c.once.Do returns to a handler that stood at it, and the handler runs to
\* its end; o is the outcome of its invocation.
Resume(r, o) ==
  /\ pc[r] = "waiting"
  /\ ~OnceBlocks(once)
  /\ Finish(r, op[r].kind, op[r].how, op[r].cfg, o)
  /\ UNCHANGED <<once, schemas, schemaErr, schemaCalls>>

\* A handler is called when the Once is done and runs to its end.
CallCached(r, kind, cfg, o) ==
  /\ pc[r] = "idle"
  /\ HostMayCall(kind, rec[r])
  /\ once = "done"
  /\ Finish(r, kind, "cached", cfg, o)
  /\ UNCHANGED <<once, schemas, schemaErr, schemaCalls>>

\* The host sees what CustomizeDiff returned.
Planned(r, cfg, o, h) ==
  /\ last' = [res |-> r, kind |-> "plan", how |-> "none", cfg |-> cfg,
              before |-> rec[r],
              sch |-> [schemas |-> NoSchemas, err |-> ""], gate |-> once,
              o |-> o, err |-> h.err, calls |-> h.calls, d |-> rec[r],
              forceNew |-> h.forceNew, reason |-> h.reason]
  /\ UNCHANGED <<once, schemas, schemaErr, schemaCalls, returned, rec, pc, op>>

\* The host plans resource r with proposed args cfg: CustomizeDiff runs.
Plan(r, cfg, o) ==
  /\ pc[r] = "idle"
  /\ Planned(r, cfg, o,
             CustomizeDiff(DataFor("update", rec[r], cfg), rec[r].args, o))

\* ------------------------------------------------------------------------
\* Inputs: what the configuration and the remote function may supply
\* ------------------------------------------------------------------------

CfgA == <<"{\"a\":1}">>

\* The shape of the example configuration: a fragment that is no JSON
\* between two that are.
CfgB == <<"{\"a\":2,\"b\":{\"x\":1}}", "user data problem sasa", "{\"b\":{\"y\":2}}">>

CfgN == <<"{\"b\":{\"y\":2}}">>

Required(k) == JObj("required" :> JArr(<<JStr(k)>>))

\* Replies to action "schema".
SchemaBoth ==
  Reply(JObj("result" :> JObj("request" :> Required("a") @@ "response" :> Required("k"))))

SchemaResponseOnly ==
  Reply(JObj("result" :> JObj("request" :> EmptyObj @@ "response" :> Required("k"))))

SchemaNone == Reply(JObj("result" :> EmptyObj))

SchemaNoResult == Reply(EmptyObj)

\* Replies to the lifecycle actions and to "diff".
ReplyFull ==
  Reply(JObj("id" :> JStr("i1")
          @@ "result" :> JObj("id" :> JStr("i1") @@ "k" :> JNum(1))
          @@ "store" :> ObjS1))

ReplyOther ==
  Reply(JObj("id" :> JStr("i2")
          @@ "result" :> JObj("id" :> JStr("i2") @@ "k" :> JStr("v"))
          @@ "store" :> EmptyObj))

ReplyNoK ==
  Reply(JObj("id" :> JStr("i2") @@ "result" :> JObj("id" :> JStr("i2"))))

ReplyTopIdOnly ==
  Reply(JObj("id" :> JStr("i1") @@ "result" :> JObj("k" :> JNum(2))))

ReplyGone == Reply(JObj("id" :> JStr("") @@ "result" :> EmptyObj))

ReplyResultIdOnly ==
  Reply(JObj("id" :> JStr("")
          @@ "result" :> JObj("id" :> JStr("i2") @@ "k" :> JNum(5))
          @@ "store" :> JStr("{\"s\":\"v\"}")))

ReplyReplace ==
  Reply(JObj("replace" :> JBool(TRUE) @@ "reason" :> JStr("type changed")))

ReplyKeep == Reply(JObj("replace" :> JBool(FALSE)))

ReplyEmptyIdNoK ==
  Reply(JObj("id" :> JStr("") @@ "result" :> JObj("id" :> JStr("i2"))))

ReplyNotJSON == Reply(JNum(5))

SchemaOutcomes ==
  {TransportError, FunctionError, SchemaBoth, SchemaResponseOnly, SchemaNone,
   SchemaNoResult}

Outcomes ==
  {TransportError, FunctionError, ReplyNotJSON, ReplyFull, ReplyOther, ReplyNoK,
   ReplyTopIdOnly, ReplyGone, ReplyResultIdOnly, ReplyEmptyIdNoK, ReplyReplace,
   ReplyKeep}

Configs == {CfgA, CfgB, CfgN, <<>>}

\* The inputs of the runs with several resources at once.
FewSchemaOutcomes == {TransportError, FunctionError, SchemaBoth, SchemaNone}

FewOutcomes == {TransportError, ReplyFull}

FewConfigs == {CfgA}

\* What a list handed to parseArgsJSON may hold: texts of objects, the
\* text of null, of a number, a text that is no JSON, and a value that is
\* no string.
Fragments ==
  {JStr("{\"a\":1,\"b\":{\"x\":1}}"), JStr("{\"b\":{\"y\":2}}"),
   JStr("{\"a\":{\"x\":1}}"), JStr("{\"a\":5}"), JStr("null"), JStr("5"),
   JStr("user data problem sasa"), JNum(7)}

\* The arguments of parseArgsJSON: lists of fragments and, for the other two
\* arms of its type switch, single values.
ArgsInputs ==
  {GoList(l) : l \in UNION {[1..n -> Fragments] : n \in 0..MaxFrags}} \cup Fragments

\* ------------------------------------------------------------------------
\* Specifications
\* ------------------------------------------------------------------------

\* Operations on all resources, in any interleaving.
Next ==
  /\ \E r \in Resources :
       \/ \E kind \in Kinds, cfg \in FewConfigs : CallFetch(r, kind, cfg)
       \/ \E so \in FewSchemaOutcomes : FetchDone(r, so)
       \/ \E kind \in Kinds, cfg \in FewConfigs : CallWait(r, kind, cfg)
       \/ \E o \in FewOutcomes : Resume(r, o)
       \/ \E kind \in Kinds, cfg \in FewConfigs, o \in FewOutcomes :
            CallCached(r, kind, cfg, o)
       \/ \E cfg \in FewConfigs, o \in FewOutcomes : Plan(r, cfg, o)
  /\ UNCHANGED probe

Spec == Init /\ [][Next]_vars

\* The operations of one resource, one after the other, on every input.
NextLifecycle ==
  /\ \/ \E kind \in Kinds, cfg \in Configs : CallFetch(1, kind, cfg)
     \/ \E so \in SchemaOutcomes : FetchDone(1, so)
     \/ \E o \in Outcomes : Resume(1, o)
     \/ \E kind \in Kinds, cfg \in Configs, o \in Outcomes : CallCached(1, kind, cfg, o)
     \/ \E cfg \in Configs, o \in Outcomes : Plan(1, cfg, o)
  /\ UNCHANGED probe

SpecLifecycle == InitLifecycle /\ [][NextLifecycle]_vars

\* parseArgsJSON on its own, on every argument.
InitArgs ==
  /\ Configured({})
  /\ \E v \in ArgsInputs : probe = [NoProbe EXCEPT !.fn = "called", !.in = v]

CallParseArgs ==
  /\ probe.fn = "called"
  /\ probe' = [probe EXCEPT !.fn = "returned", !.out = parseArgsJSON(probe.in)]
  /\ UNCHANGED <<once, schemas, schemaErr, schemaCalls, returned, rec, pc, op, last>>

NextArgs == CallParseArgs

SpecArgs == InitArgs /\ [][NextArgs]_vars

\* ------------------------------------------------------------------------
\* The schema cache under concurrent callers
\* ------------------------------------------------------------------------

\* C1: whatever operations run and however they interleave, the function is
\* invoked with action "schema" at most once for one provider configuration.
SchemaInvokedAtMostOnce == schemaCalls <= 1

\* Two operations on different resources stood in getSchemas at the same
\* time, one of them has returned, and one invocation was made.
SchemaInvokedOnceForTwoCallers ==
  /\ schemaCalls = 1
  /\ once = "done"
  /\ last.kind \in Kinds
  /\ \E r \in Resources : r # last.res /\ pc[r] = "waiting"

\* C2: every call of getSchemas, the one that fetched and the ones that
\* overlapped it or came later, returns the same (schemas, error) pair, the
\* pair the client holds; no call returns nil schemas with a nil error.
AllCallersSameSchemas ==
  \A x \in returned :
    /\ x[2] = [schemas |-> schemas, err |-> schemaErr]
    /\ ~(x[2].schemas.nil /\ x[2].err = "")
    /\ \A y \in returned : y[2] = x[2]

\* A caller that waited at once.Do and the caller that fetched have both
\* returned from getSchemas.
WaiterAndFetcherReturned ==
  /\ last.how = "wait"
  /\ \E x \in returned : x[1] # last.res
  /\ \E x \in returned : x[1] = last.res

\* C3: a failed schema fetch is cached: from then on the error stays, every
\* call of getSchemas has returned it, and no further "schema" invocation
\* is made.
SchemaFailureCached ==
  /\ [](schemaErr # "" =>
          /\ schemaCalls = 1
          /\ \A x \in returned : x[2].err = schemaErr /\ x[2].schemas.nil)
  /\ [][schemaErr # "" => schemaErr' = schemaErr /\ schemaCalls' = schemaCalls]_vars

\* After a failed fetch an operation that found the Once done was given the
\* cached error, as was another resource's operation before it.
CachedFailureReturned ==
  /\ schemaErr # ""
  /\ last.how = "cached"
  /\ last.err = schemaErr
  /\ \E x \in returned : x[1] # last.res

\* C4: no create, read, update or delete invokes its action before the
\* "schema" invocation has completed: an operation that sent its payload
\* left getSchemas when the function of once.Do had returned.
NoLifecycleBeforeSchemas ==
  (last.kind \in Kinds /\ last.calls # <<>>) =>
     (last.gate = "done" /\ schemaCalls >= 1 /\ ~last.sch.schemas.nil)

\* An operation that arrived while the fetch was in flight invoked its
\* action afterwards.
WaiterInvokedAfterFetch ==
  /\ last.kind \in Kinds
  /\ last.how = "wait"
  /\ last.calls # <<>>

\* ------------------------------------------------------------------------
\* Planning
\* ------------------------------------------------------------------------

\* The top-level "id" of a reply, "" when the reply has none.
TopId(o) ==
  IF o.kind = "payload" /\ HasKey(o.v, "id") /\ o.v.m["id"].t = "string"
    THEN o.v.m["id"].s ELSE ""

\* The operation that returned last was a plan of a resource with prior
\* state: the host holds it, with a list of argument fragments.
PlannedWithPriorState ==
  last.kind = "plan" /\ last.before.id # "" /\ last.before.args # <<>>

\* C5: a plan without prior arguments (a first creation) makes no "diff"
\* invocation and does not mark "args" for replacement.
NoDiffOnCreate ==
  (last.kind = "plan" /\ last.before.args = <<>>) =>
     (last.calls = <<>> /\ ~last.forceNew)

\* A resource the host does not hold was planned, and the function would
\* have asked for a replacement.
PlannedFirstCreation ==
  /\ last.kind = "plan"
  /\ last.before = Absent
  /\ last.cfg # <<>>
  /\ last.o = ReplyReplace

\* C6: in a plan with prior state, a "diff" reply with replace = true and
\* reason r marks "args" for replacement and the plan's output carries r;
\* a reply with replace false or absent marks nothing.
ReplacePropagated ==
  (PlannedWithPriorState /\ last.o.kind = "payload" /\ last.o.v.t = "object") =>
     IF invokeLambda(last.o).Replace
       THEN last.forceNew /\ last.reason = invokeLambda(last.o).Reason
       ELSE ~last.forceNew

\* C7: a plan with prior state makes exactly one "diff" invocation, with the
\* previous merged arguments as state and the proposed merged arguments as
\* args.
OneDiffWithPriorState ==
  PlannedWithPriorState =>
     /\ Len(last.calls) = 1
     /\ last.calls[1].Action = "diff"
     /\ last.calls[1].Args = parseArgsJSON(ArgsValue(last.cfg)).m
     /\ last.calls[1].State = parseArgsJSON(ArgsValue(last.before.args)).m

\* ------------------------------------------------------------------------
\* Read, create, update
\* ------------------------------------------------------------------------

\* The operation that returned last was a `kind` that sent its payload and
\* got a JSON object back.
Replied(kind) ==
  /\ last.kind = kind
  /\ last.calls # <<>>
  /\ last.o.kind = "payload"
  /\ last.o.v.t = "object"

\* C8: a read whose reply carries an empty id clears the persisted id,
\* result and store and returns no error.
ReadEmptyIdClears ==
  (Replied("read") /\ HasKey(last.o.v, "id") /\ TopId(last.o) = "") =>
     (last.err = "" /\ rec[last.res] = Absent)

\* C9: a create whose reply carries an empty or no id fails and leaves the
\* resource absent.
CreateEmptyIdFails ==
  (Replied("create") /\ TopId(last.o) = "") =>
     (last.err # "" /\ rec[last.res] = Absent)

\* C10: an update that fails leaves the persisted id, result and store as
\* they were, and one that succeeds replaces all three by the reply's; no
\* update replaces only some of them.
UpdateAllOrNothing ==
  last.kind = "update" =>
     LET now == rec[last.res]
         res == invokeLambda(last.o)
     IN IF last.err # ""
          THEN /\ now.id = last.before.id
               /\ now.result = last.before.result
               /\ now.store = last.before.store
          ELSE /\ now.id = res.ID
               /\ now.result = mapStringValues(res.Result)
               /\ now.store = setStoreAsJSONString(res.Store)

\* An update failed on the validation of a reply whose id, result and store
\* all differ from the persisted ones.
UpdateFailedOnReply ==
  /\ last.kind = "update"
  /\ last.err = "response validation"
  /\ invokeLambda(last.o).ID # last.before.id
  /\ mapStringValues(invokeLambda(last.o).Result) # last.before.result
  /\ setStoreAsJSONString(invokeLambda(last.o).Store) # last.before.store

\* ------------------------------------------------------------------------
\* Delete
\* ------------------------------------------------------------------------

\* The operation that returned last sent its payload and the invocation
\* came back without error.
Invoked(kind) ==
  last.kind = kind /\ last.calls # <<>> /\ invokeLambda(last.o).err = ""

DeleteSkipsResponseValidation ==
  (Invoked("delete")
     /\ validateWithSchema(last.sch.schemas.Response, invokeLambda(last.o).Result) # "")
  => (last.err = "" /\ rec[last.res] = Absent)

\* A delete got a reply with an id and a result that the response schema
\* rejects.
DeletedOnRejectedReply ==
  /\ Invoked("delete")
  /\ invokeLambda(last.o).ID # ""
  /\ validateWithSchema(last.sch.schemas.Response, invokeLambda(last.o).Result) # ""
  /\ last.before.id # ""

\* C13: a delete whose invocation fails (transport error, function error,
\* undecodable reply) returns an error and leaves id, result and store as
\* they were.
DeleteFailureKeepsState ==
  (last.kind = "delete" /\ last.calls # <<>> /\ invokeLambda(last.o).err # "")
  => (last.err # "" /\ rec[last.res] = last.before /\ last.before.id # "")

\* A delete got a reply that does not decode.
DeleteFailedOnUndecodableReply ==
  /\ last.kind = "delete"
  /\ last.calls # <<>>
  /\ last.o = ReplyNotJSON
  /\ last.err # ""

\* ------------------------------------------------------------------------
\* Create
\* ------------------------------------------------------------------------

\* C14: a create that fails at any step (schema fetch, request validation,
\* invocation, empty id, response validation) returns an error and leaves
\* the resource absent; one that succeeds stores the reply's id, result and
\* store together.
CreateAllOrNothing ==
  last.kind = "create" =>
     LET now == rec[last.res]
         res == invokeLambda(last.o)
         p   == parseArgsJSON(ArgsValue(last.cfg))
         failed == \/ p.err # ""
                   \/ last.sch.err # ""
                   \/ validateWithSchema(last.sch.schemas.Request, p.m) # ""
                   \/ res.err # ""
                   \/ res.ID = ""
                   \/ validateWithSchema(last.sch.schemas.Response, res.Result) # ""
     IN IF failed
          THEN last.err # "" /\ now = Absent
          ELSE /\ last.err = ""
               /\ now.id = res.ID
               /\ now.result = mapStringValues(res.Result)
               /\ now.store = setStoreAsJSONString(res.Store)

\* A create failed on the validation of a reply that names an id.
CreateFailedOnReply ==
  /\ last.kind = "create"
  /\ last.err = "response validation"
  /\ invokeLambda(last.o).ID # ""
  /\ rec[last.res] = Absent

\* ------------------------------------------------------------------------
\* Argument fragments
\* ------------------------------------------------------------------------

\* The reference deep merge of an incoming value into an accumulated one:
\* two objects are merged key by key, anything else is replaced.
RECURSIVE RefMerge(_, _)
RefMerge(acc, inc) ==
  IF acc.t = "object" /\ inc.t = "object"
    THEN JObj([k \in DOMAIN acc.m \cup DOMAIN inc.m |->
                 CASE k \notin DOMAIN inc.m -> acc.m[k]
                   [] k \notin DOMAIN acc.m -> inc.m[k]
                   [] OTHER -> RefMerge(acc.m[k], inc.m[k])])
    ELSE inc

\* The left-to-right fold of RefMerge over a sequence of objects.
RECURSIVE RefFold(_, _)
RefFold(acc, objs) ==
  IF objs = <<>> THEN acc ELSE RefFold(RefMerge(acc, Head(objs)), Tail(objs))

\* The fragment is a string that holds the text of a JSON object.
IsObjectText(el) ==
  el.t = "string" /\ el.s \in JsonTexts /\ Decoded(el.s).t = "object"

\* The objects a list of object texts denotes.
ObjectsOf(l) == [i \in 1..Len(l) |-> Decoded(l[i].s)]

\* parseArgsJSON has returned for a list.
ParsedList == probe.fn = "returned" /\ probe.in.t = "list"

\* C15: merging a list of fragments is the left-to-right fold of the
\* reference deep merge: [{a:1,b:{x:1}}, {b:{y:2}}] gives {a:1,b:{x:1,y:2}}
\* and [{a:{x:1}}, {a:5}] gives {a:5}.
MergeIsFold ==
  /\ (ParsedList /\ \A i \in 1..Len(probe.in.l) : IsObjectText(probe.in.l[i]))
       => probe.out = [err |-> "", m |-> RefFold(EmptyObj, ObjectsOf(probe.in.l))]
  /\ (ParsedList /\ probe.in.l = <<JStr("{\"a\":1,\"b\":{\"x\":1}}"), JStr("{\"b\":{\"y\":2}}")>>)
       => probe.out.m = JObj("a" :> JNum(1) @@ "b" :> JObj("x" :> JNum(1) @@ "y" :> JNum(2)))
  /\ (ParsedList /\ probe.in.l = <<JStr("{\"a\":{\"x\":1}}"), JStr("{\"a\":5}")>>)
       => probe.out.m = ObjA5

\* Three objects were merged: the second went into the first's nested
\* object and the third replaced a member.
MergedThree ==
  /\ ParsedList
  /\ probe.in.l = <<JStr("{\"a\":1,\"b\":{\"x\":1}}"), JStr("{\"b\":{\"y\":2}}"),
                    JStr("{\"a\":{\"x\":1}}")>>
  /\ probe.out.m = JObj("a" :> JObj("x" :> JNum(1))
                       @@ "b" :> JObj("x" :> JNum(1) @@ "y" :> JNum(2)))

\* C16: in a list, a fragment that is no string or not the text of a JSON
\* object is skipped: the result is the merge of the other fragments, with
\* no error.  A single string that fails to parse is returned as an error.
BadFragmentSkipped ==
  /\ ParsedList =>
       probe.out = [err |-> "",
                    m |-> RefFold(EmptyObj, ObjectsOf(SelectSeq(probe.in.l, IsObjectText)))]
  /\ (probe.fn = "returned" /\ probe.in.t = "string"
         /\ Unmarshal(probe.in.s, NilMap).err # "")
       => (probe.out.err # "" /\ probe.out.m = NilMap)

\* A list with a text that is no JSON between two object texts was merged.
MergedAroundJunk ==
  /\ ParsedList
  /\ probe.in.l = <<JStr("{\"a\":1,\"b\":{\"x\":1}}"), JStr("user data problem sasa"),
                    JStr("{\"b\":{\"y\":2}}")>>
  /\ probe.out.err = ""
  /\ probe.out.m = JObj("a" :> JNum(1) @@ "b" :> JObj("x" :> JNum(1) @@ "y" :> JNum(2)))

\* ------------------------------------------------------------------------
\* The store
\* ------------------------------------------------------------------------

\* The operation that returned last was a create, read or update that
\* returned no error and left the resource with an id.
Refreshed ==
  /\ last.kind \in {"create", "read", "update"}
  /\ last.err = ""
  /\ rec[last.res].id # ""

\* The store object of a reply: the member "store" when it is an object or
\* the text of one, NilMap when the reply has no such store.
ReplyStore(o) ==
  IF o.kind = "payload" /\ HasKey(o.v, "store")
    THEN LET st == o.v.m["store"] IN
      CASE st.t = "object" -> st
        [] IsObjectText(st) -> Decoded(st.s)
        [] OTHER -> NilMap
    ELSE NilMap

EmptyStoreEncodesEmpty ==
  (Refreshed /\ (~HasKey(last.o.v, "store") \/ ReplyStore(last.o) = EmptyObj))
  => rec[last.res].store = ""

\* ------------------------------------------------------------------------
\* The reply's id
\* ------------------------------------------------------------------------

\* C19: a create, update or read reply whose top-level id is a non-empty
\* string is accepted and that string becomes the persisted id, whatever
\* the result holds.
TopLevelIdUsed ==
  ((Replied("create") \/ Replied("update") \/ Replied("read"))
     /\ TopId(last.o) # ""
     /\ validateWithSchema(last.sch.schemas.Response, invokeLambda(last.o).Result) = "")
  => (last.err = "" /\ rec[last.res].id = TopId(last.o))

\* ------------------------------------------------------------------------
\* Empty schemas
\* ------------------------------------------------------------------------

\* C20: with an empty request schema every operation passes the request
\* validation and sends its payload; with an empty response schema no
\* operation fails on the response validation; and a schema reply with a
\* missing or empty result gives a pair with both sides empty and no error.
EmptySchemaDisablesValidation ==
  /\ (last.kind \in Kinds /\ last.sch.err = ""
         /\ MapLen(last.sch.schemas.Request) = 0)
       => last.calls # <<>>
  /\ (last.kind \in Kinds /\ last.sch.err = ""
         /\ MapLen(last.sch.schemas.Response) = 0)
       => /\ last.err # "response validation"
          /\ (Invoked(last.kind) /\ invokeLambda(last.o).ID # "") => last.err = ""
  /\ (last.kind = "schema" /\ last.o.kind = "payload" /\ last.o.v.t = "object"
         /\ (HasKey(last.o.v, "result") => MapLen(last.o.v.m["result"]) = 0))
       => /\ schemaErr = ""
          /\ ~schemas.nil
          /\ MapLen(schemas.Request) = 0
          /\ MapLen(schemas.Response) = 0

\* With a schema pair whose request side is empty and whose response side
\* is not, a create whose arguments the other request schema would reject
\* sent its payload, and its reply was validated.
OnlyRequestSideDisabled ==
  /\ last.kind = "create"
  /\ last.sch.err = ""
  /\ MapLen(last.sch.schemas.Request) = 0
  /\ MapLen(last.sch.schemas.Response) > 0
  /\ validateWithSchema(Required("a"), parseArgsJSON(ArgsValue(last.cfg)).m) # ""
  /\ last.calls # <<>>
  /\ last.err = "response validation"

\* ------------------------------------------------------------------------
\* Order of the steps of an operation
\* ------------------------------------------------------------------------

\* The request validation of the operation that returned last: "" when its
\* merged arguments pass the request schema it was given.
RequestCheck ==
  validateWithSchema(last.sch.schemas.Request, parseArgsJSON(ArgsValue(last.cfg)).m)

\* The response validation of the reply the operation that returned last
\* was given.
ResponseCheck ==
  validateWithSchema(last.sch.schemas.Response, invokeLambda(last.o).Result)

\* C21: a create, read, update or delete whose schema fetch failed or whose
\* merged arguments fail the request schema returns an error and has not
\* invoked its action.
RequestValidatedBeforeInvoke ==
  (last.kind \in Kinds /\ (last.sch.err # "" \/ RequestCheck # ""))
  => (last.err # "" /\ last.calls = <<>>)

\* A create whose arguments the request schema rejects returned without
\* invoking a function that would have answered.
CreateRejectedBeforeInvoke ==
  /\ last.kind = "create"
  /\ last.sch.err = ""
  /\ RequestCheck # ""
  /\ last.o = ReplyFull
  /\ last.calls = <<>>

\* C22: an operation (create, read, update, delete, plan) invokes its
\* action at most once, and one whose invocation failed returns an error.
NoInternalRetry ==
  (last.kind \in Kinds \cup {"plan"})
  => /\ Len(last.calls) <= 1
     /\ (last.calls # <<>> /\ invokeLambda(last.o).err # "") => last.err # ""

\* A read whose invocation failed returned an error after one invocation.
ReadFailedAfterOneInvocation ==
  /\ last.kind = "read"
  /\ last.o = TransportError
  /\ Len(last.calls) = 1
  /\ last.err # ""

\* C23: a read, update or delete of a resource with persisted arguments
\* sends the merge of those arguments as the request's state.
PriorArgsSentAsState ==
  (last.kind \in {"read", "update", "delete"} /\ last.calls # <<>>
     /\ last.before.args # <<>>)
  => last.calls[1].State = parseArgsJSON(ArgsValue(last.before.args)).m

\* ------------------------------------------------------------------------
\* Read
\* ------------------------------------------------------------------------

\* C24: a read that fails leaves id, result and store as they were; a read
\* fails when the invocation fails (an undecodable reply included) and
\* when a reply with an id is rejected by the response schema.
ReadFailureKeepsState ==
  last.kind = "read" =>
     /\ last.err # "" => rec[last.res] = last.before
     /\ (last.calls # <<>>
           /\ \/ invokeLambda(last.o).err # ""
              \/ invokeLambda(last.o).ID # "" /\ ResponseCheck # "")
         => (last.err # "" /\ rec[last.res] = last.before)

\* A read failed on the validation of a reply whose id, result and store
\* all differ from the persisted ones.
ReadFailedOnReply ==
  /\ last.kind = "read"
  /\ last.err = "response validation"
  /\ invokeLambda(last.o).ID # last.before.id
  /\ mapStringValues(invokeLambda(last.o).Result) # last.before.result
  /\ setStoreAsJSONString(invokeLambda(last.o).Store) # last.before.store
  /\ rec[last.res] = last.before

\* C27: a read reply with an empty id clears the record and returns no
\* error also when the response schema rejects the reply's result.
ReadEmptyIdBeforeValidation ==
  (Replied("read") /\ HasKey(last.o.v, "id") /\ TopId(last.o) = ""
     /\ ResponseCheck # "")
  => (last.err = "" /\ rec[last.res] = Absent)

\* ------------------------------------------------------------------------
\* A persisted store that does not decode
\* ------------------------------------------------------------------------

\* The persisted string is not empty and is not the text of a JSON object.
Undecodable(s) == s # "" /\ ~IsObjectText(JStr(s))

\* C25: with a persisted store that does not decode to an object, a read,
\* update or delete that passes the request validation sends its payload
\* with an empty store, an operation fails only for what another step
\* found, and a plan returns no error.
UndecodableStoreIgnored ==
  /\ (last.kind \in {"read", "update", "delete"} /\ Undecodable(last.before.store))
       => /\ (last.sch.err = "" /\ RequestCheck = "")
               => (last.calls # <<>> /\ MapLen(last.calls[1].Store) = 0)
          /\ last.err # ""
               => \/ last.sch.err # ""
                  \/ RequestCheck # ""
                  \/ invokeLambda(last.o).err # ""
                  \/ last.kind = "update" /\ invokeLambda(last.o).ID = ""
                  \/ /\ last.kind \in {"read", "update"}
                     /\ invokeLambda(last.o).ID # ""
                     /\ ResponseCheck # ""
  /\ (last.kind = "plan" /\ Undecodable(last.before.store)) => last.err = ""

\* An update of a resource whose persisted store is no JSON sent its
\* payload and returned no error.
UpdatedWithUndecodableStore ==
  /\ last.kind = "update"
  /\ last.before.store = "user data problem sasa"
  /\ last.calls # <<>>
  /\ last.calls[1].Store = EmptyObj
  /\ last.err = ""

\* ------------------------------------------------------------------------
\* Operations after a failed schema fetch
\* ------------------------------------------------------------------------

\* C26: once the schema fetch has failed, every create, read, update and
\* delete returns the cached error, invokes nothing and leaves its
\* resource's record as it was.
FetchFailureFailsEveryOperation ==
  (last.kind \in Kinds /\ schemaErr # "")
  => /\ last.err = schemaErr
     /\ last.calls = <<>>
     /\ rec[last.res] = last.before

\* After a failed fetch a delete of a held resource, which the function
\* would have carried out, returned the cached error.
DeleteBlockedByFailedFetch ==
  /\ schemaErr # ""
  /\ last.kind = "delete"
  /\ last.how = "cached"
  /\ last.o = ReplyFull
  /\ last.err = schemaErr
  /\ rec[last.res] = Held

====
